---- MODULE Spec2Model ----
(***************************************************************************)
(* Backtesting engine of the crypto-signal application                     *)
(* (server/backtesting-engine.ts, kept as src/unnamed/part_012).           *)
(*                                                                         *)
(* Numbers.  Prices are integers.  Every quotient the engine computes is   *)
(* kept as an exact fraction [num, den]; den = 0 is NaN (and the           *)
(* `undefined` read past the end of an array, which isNaN treats alike).   *)
(* Time is counted in hours, so that one calendar day is HoursPerDay.      *)
(* Arrays are TLA+ sequences: JavaScript index i is position i + 1.        *)
(***************************************************************************)
EXTENDS Integers, Sequences, FiniteSets, TLC

\* ------------------------------------------------------------------ bounds
\* Longest free tail of daily moves appended to a generated price series.
MaxTail == 3
\* Longest trade list handed to calculateMetrics on its own.
MaxTrades == 21
\* Longest repeating pattern of profits in such a trade list.
MaxSeed == 2

\* ------------------------------------------------------- program constants
ShortPeriod == 10
LongPeriod == 30
RSIPeriod == 14
RSIOversold == 30
RSIOverbought == 70
MinCandles == 30
Retries == 3
DefaultInitialCapital == 10000
NoLossProfitFactor == 999
TradeSampleCap == 20
AnnualizationDays == 252
SMAStart == 30
RSIStart == 14
Percent == 100
HoursPerDay == 24

\* ------------------------------------------------------------- fractions
NaN == [num |-> 0, den |-> 0]
isNaN(x) == x.den = 0
Abs(n) == IF n < 0 THEN -n ELSE n
Min(a, b) == IF a <= b THEN a ELSE b

RECURSIVE GCD(_, _)
GCD(a, b) == IF b = 0 THEN a ELSE GCD(b, a % b)

\* n / d, reduced, with a positive denominator.  A zero divisor gives NaN:
\* the engine guards every division whose divisor can be zero (avgLoss,
\* grossLoss, stdDev) and the others divide by a period, a length, a price
\* or a peak, all positive here.
Frac(n, d) ==
  IF d = 0 THEN NaN
  ELSE LET g == GCD(Abs(n), Abs(d))
           s == IF d < 0 THEN -1 ELSE 1
       IN  [num |-> s * (n \div g), den |-> s * (d \div g)]
Whole(n) == [num |-> n, den |-> 1]
LCM(a, b) == (a \div GCD(a, b)) * b
\* Sums over the least common denominator and products reduced crosswise:
\* the same values as the plain formulas, with smaller intermediate numbers.
RatAdd(a, b) ==
  IF isNaN(a) \/ isNaN(b) THEN NaN
  ELSE LET l == LCM(a.den, b.den)
       IN  Frac(a.num * (l \div a.den) + b.num * (l \div b.den), l)
RatNeg(a) == IF isNaN(a) THEN NaN ELSE [num |-> -a.num, den |-> a.den]
RatSub(a, b) == RatAdd(a, RatNeg(b))
RatMul(a, b) ==
  IF isNaN(a) \/ isNaN(b) THEN NaN
  ELSE LET g1 == GCD(Abs(a.num), b.den)
           g2 == GCD(Abs(b.num), a.den)
       IN  Frac((a.num \div g1) * (b.num \div g2), (a.den \div g2) * (b.den \div g1))
RatDiv(a, b) ==
  IF isNaN(a) \/ isNaN(b) \/ b.num = 0 THEN NaN
  ELSE RatMul(a, IF b.num < 0 THEN [num |-> -b.den, den |-> -b.num]
                 ELSE [num |-> b.den, den |-> b.num])
\* Comparisons with NaN are false, as in IEEE 754.
RatLt(a, b) == ~isNaN(a) /\ ~isNaN(b) /\ a.num * b.den < b.num * a.den
RatLe(a, b) == ~isNaN(a) /\ ~isNaN(b) /\ a.num * b.den <= b.num * a.den
RatGt(a, b) == RatLt(b, a)
RatGe(a, b) == RatLe(b, a)

\* --------------------------------------------------------------- arrays
\* arr[i] of JavaScript: undefined (NaN to isNaN) outside the array.
At(arr, i) == IF i >= 0 /\ i < Len(arr) THEN arr[i + 1] ELSE NaN

\* arr.slice(from, to): the elements of index from .. to-1; a negative
\* bound counts from the end of the array.
SliceBound(arr, b) ==
  IF b < 0 THEN (IF Len(arr) + b < 0 THEN 0 ELSE Len(arr) + b) ELSE Min(b, Len(arr))
Slice(arr, from, to) ==
  LET lo == SliceBound(arr, from)
      hi == SliceBound(arr, to)
  IN  IF hi <= lo THEN <<>> ELSE SubSeq(arr, lo + 1, hi)

RECURSIVE Sum(_)
Sum(s) == IF s = <<>> THEN 0 ELSE s[1] + Sum(Tail(s))

\* ------------------------------------------------------------ indicators
\* Variant: the window ends one element early.
calculateSMAShifted(data, period) ==
  [k \in 1..Len(data) |->
     LET i == k - 1
     IN  IF i < period - 1 THEN NaN
         ELSE Frac(Sum(Slice(data, i - period, i)), period)]

\* calculateSMA(data, period)
calculateSMA(data, period) ==
  [k \in 1..Len(data) |->
     LET i == k - 1
     IN  IF i < period - 1 THEN NaN
         ELSE Frac(Sum(Slice(data, i - period + 1, i + 1)), period)]

Positive(s) == SelectSeq(s, LAMBDA c : c > 0)
Negative(s) == SelectSeq(s, LAMBDA c : c < 0)
MapAbs(s) == [k \in 1..Len(s) |-> Abs(s[k])]

\* Variant: the losses keep their sign.
calculateRSISignedLoss(prices, period) ==
  LET changes == [k \in 1..(Len(prices) - 1) |-> prices[k + 1] - prices[k]]
  IN  [k \in 1..Len(changes) |->
         LET i == k - 1
             gains == Positive(Slice(changes, i - period, i))
             losses == Negative(Slice(changes, i - period, i))
             avgGain == IF Len(gains) > 0 THEN Frac(Sum(gains), period) ELSE Whole(0)
             avgLoss == IF Len(losses) > 0 THEN Frac(Sum(losses), period) ELSE Whole(0)
             rs == RatDiv(avgGain, avgLoss)
         IN  IF i < period THEN NaN
             ELSE IF avgLoss.num = 0 THEN Whole(100)
             ELSE RatSub(Whole(100), RatDiv(Whole(100), RatAdd(Whole(1), rs)))]

\* Variant: one value per price, each over the changes up to that price.
calculateRSIPerPrice(prices, period) ==
  LET changes == [k \in 1..(Len(prices) - 1) |-> prices[k + 1] - prices[k]]
  IN  [k \in 1..Len(prices) |->
         LET i == k - 1
             gains == Positive(Slice(changes, i - period, i))
             losses == MapAbs(Negative(Slice(changes, i - period, i)))
             avgGain == IF Len(gains) > 0 THEN Frac(Sum(gains), period) ELSE Whole(0)
             avgLoss == IF Len(losses) > 0 THEN Frac(Sum(losses), period) ELSE Whole(0)
             rs == RatDiv(avgGain, avgLoss)
         IN  IF i < period THEN NaN
             ELSE IF avgLoss.num = 0 THEN Whole(100)
             ELSE RatSub(Whole(100), RatDiv(Whole(100), RatAdd(Whole(1), rs)))]

\* calculateRSI(prices, period): one value per price CHANGE, so the result
\* is one shorter than prices.
calculateRSI(prices, period) ==
  LET changes == [k \in 1..(Len(prices) - 1) |-> prices[k + 1] - prices[k]]
  IN  [k \in 1..Len(changes) |->
         LET i == k - 1
             gains == Positive(Slice(changes, i - period, i))
             losses == MapAbs(Negative(Slice(changes, i - period, i)))
             avgGain == IF Len(gains) > 0 THEN Frac(Sum(gains), period) ELSE Whole(0)
             avgLoss == IF Len(losses) > 0 THEN Frac(Sum(losses), period) ELSE Whole(0)
             rs == RatDiv(avgGain, avgLoss)
         IN  IF i < period THEN NaN
             ELSE IF avgLoss.num = 0 THEN Whole(100)
             ELSE RatSub(Whole(100), RatDiv(Whole(100), RatAdd(Whole(1), rs)))]

\* ------------------------------------------------- price feeds (the input)
\* The upstream market-data service is outside the engine.  Its answers are
\* drawn from a family of daily price series: a straight run of PrefixLens
\* days starting at 100 and moving Slopes per day, followed by up to
\* MaxTail days that each move by one of Deltas.
PrefixLens == {0, 29, 30, 35, 40}
Slopes == {-1, 0, 1}
Deltas == {-3, 1, 8}

RECURSIVE TailsOfLen(_)
TailsOfLen(n) ==
  IF n = 0 THEN {<<>>}
  ELSE {Append(t, d) : t \in TailsOfLen(n - 1), d \in Deltas}
Tails == UNION {TailsOfLen(n) : n \in 0..MaxTail}

RECURSIVE Walk(_, _)
\* The prices reached from `from` by the successive moves of `moves`.
Walk(from, moves) ==
  IF moves = <<>> THEN <<>>
  ELSE <<from + moves[1]>> \o Walk(from + moves[1], Tail(moves))

SeriesOf(len, slope, tail) ==
  LET prefix == [k \in 1..len |-> 100 + slope * (k - 1)]
      last == IF len = 0 THEN 100 ELSE prefix[len]
  IN  prefix \o Walk(last, tail)

PriceSeries ==
  {SeriesOf(len, slope, tail) : len \in PrefixLens, slope \in Slopes, tail \in Tails}

\* response.prices: one [timestamp, price] point per day, at noon.
FeedOf(series) ==
  [k \in 1..Len(series) |->
     <<k * HoursPerDay + 12, series[k]>>]

\* Raw feeds: up to MaxPoints points in any arrival order, several a day,
\* each on one of RawDays at one of RawHours with one of RawPrices.
MaxPoints == 3
RawDays == {1, 2}
RawHours == {6, 18}
RawPrices == {1, 2, 3}
RawPoints == {<<d * HoursPerDay + h, p>> : d \in RawDays, h \in RawHours, p \in RawPrices}
RECURSIVE RawFeedsOfLen(_)
RawFeedsOfLen(n) ==
  IF n = 0 THEN {<<>>}
  ELSE {Append(f, pt) : f \in RawFeedsOfLen(n - 1), pt \in RawPoints}
RawFeeds == UNION {RawFeedsOfLen(n) : n \in 0..MaxPoints}

\* A sample of the daily series: none, 15 and 16 falling days, 29 days that
\* end on a dip and a jump, and two series of 32 and 33 days.
SampleSeries ==
  {SeriesOf(0, 0, <<>>),
   SeriesOf(15, -1, <<>>),
   SeriesOf(16, -1, <<>>),
   SeriesOf(27, 0, <<-3, 8>>),
   SeriesOf(29, 0, <<-3, 8, -3>>),
   SeriesOf(30, -1, <<8, 8, -3>>)}

\* What the upstream answers a 200 with.
Upstream(kind) ==
  IF kind = "raw" THEN RawFeeds
  ELSE IF kind = "sample" THEN {FeedOf(s) : s \in SampleSeries}
  ELSE {FeedOf(s) : s \in PriceSeries}

\* ------------------------------------------------------ fetchHistoricalData
\* new Date(timestamp).toISOString().split('T')[0]: the calendar day.
DateOf(timestamp) == timestamp \div HoursPerDay
\* new Date(date).getTime(): midnight of that day.
TimeOfDate(date) == date * HoursPerDay

RECURSIVE DayKeys(_, _)
\* Keys of dayMap in insertion order.
DayKeys(prices, seen) ==
  IF prices = <<>> THEN <<>>
  ELSE LET d == DateOf(prices[1][1])
       IN  IF d \in seen THEN DayKeys(Tail(prices), seen)
           ELSE <<d>> \o DayKeys(Tail(prices), seen \cup {d})

\* dayMap.get(date): that day's prices in arrival order.
DayPrices(prices, date) ==
  LET pts == SelectSeq(prices, LAMBDA pt : DateOf(pt[1]) = date)
  IN  [k \in 1..Len(pts) |-> pts[k][2]]

SeqMax(s) == CHOOSE x \in {s[k] : k \in 1..Len(s)} : \A k \in 1..Len(s) : s[k] <= x
SeqMin(s) == CHOOSE x \in {s[k] : k \in 1..Len(s)} : \A k \in 1..Len(s) : x <= s[k]

Candle(date, dayPrices) ==
  [timestamp |-> TimeOfDate(date),
   open |-> dayPrices[1],
   high |-> SeqMax(dayPrices),
   low |-> SeqMin(dayPrices),
   close |-> dayPrices[Len(dayPrices)],
   volume |-> 0]

\* Variant: the candles are left in the order the days arrived in.
ToOHLCUnsorted(prices) ==
  LET keys == DayKeys(prices, {})
  IN  [k \in 1..Len(keys) |-> Candle(keys[k], DayPrices(prices, keys[k]))]

\* The candles built from response.prices, sorted by timestamp.
ToOHLC(prices) ==
  LET keys == DayKeys(prices, {})
      ohlcUnsorted == [k \in 1..Len(keys) |-> Candle(keys[k], DayPrices(prices, keys[k]))]
  IN  SortSeq(ohlcUnsorted, LAMBDA a, b : a.timestamp < b.timestamp)

\* HTTP statuses the upstream may answer with.
Statuses == {200, 429, 500}
ApiError(status) ==
  IF status = 429 THEN "CoinGecko API error: 429" ELSE "CoinGecko API error: 500"
NotEnoughData == "Not enough historical data for backtesting"
NoError == ""

\* -------------------------------------------------------------- the state
VARIABLES
  params,        \* the InsertBacktest given to runBacktest
  pc,            \* where the run is
  attempts,      \* failed attempts of pRetry so far
  loaderError,   \* what fetchHistoricalData threw (NoError: nothing)
  ohlc,          \* the candles fetchHistoricalData returned
  smaShort, smaLong, rsi,   \* executeStrategy's indicator arrays
  i,             \* executeStrategy's loop index
  position,      \* "long" or "null"
  entryPrice, entryTime,
  trades,        \* executeStrategy's trade list
  capitalArg,    \* calculateMetrics' initialCapital argument: <<>> when omitted
  results,       \* calculateMetrics' return value, <<>> before it returns
  outcome,       \* how runBacktest's promise settled
  transitions,   \* history: the position changes of this run, in order
  calls,         \* history: how often each stage was entered
  call,          \* an indicator function called on its own: its arguments
  ret,           \* what that call returned
  upstream,      \* which family of price feeds the market-data service answers with
  response,      \* history: response.prices of the answer fetchHistoricalData used
  backtest,      \* the row of the backtests table POST /api/backtests created
  job,           \* the background function of POST /api/backtests
  given,         \* history: the candles executeStrategy was called with
  earlier,       \* history: one earlier call of executeStrategy and calculateMetrics
  alertRows,     \* the alerts table
  passes,        \* the calls of checkAlerts
  clientsByUser, \* the alert monitor's map from userId to its sockets
  readyState,    \* each socket's readyState
  sent           \* history: the notifications sent, per socket and alert

monitorVars == <<alertRows, passes, clientsByUser, readyState, sent>>
callerVars == <<backtest, job, given, earlier>>
outside == <<monitorVars, callerVars, upstream>>

vars == <<params, pc, attempts, loaderError, ohlc, smaShort, smaLong, rsi, i,
          position, entryPrice, entryTime, trades, capitalArg, results,
          outcome, transitions, calls, call, ret, upstream, response,
          callerVars, monitorVars>>

strategyVars == <<smaShort, smaLong, rsi, i, position, entryPrice, entryTime,
                  trades, transitions>>

SMACrossover == "SMA Crossover"
RSIStrategy == "RSI Oversold/Overbought"
\* The name the backtest form of the client sends for its first choice.
MACrossover == "MA Crossover"
StrategyNames == {SMACrossover, RSIStrategy, MACrossover}

\* (startDate, endDate) pairs, as day numbers: a proper range and an empty one.
DateRanges == {<<1, 45>>, <<45, 45>>}

Pending == [state |-> "pending", error |-> NoError]
Rejected(e) == [state |-> "rejected", error |-> e]
Fulfilled == [state |-> "fulfilled", error |-> NoError]

\* A call of an indicator function and how it ended.
NoCall == [fn |-> "none", data |-> <<>>, period |-> 0]
NotReturned == [status |-> "pending", value |-> <<>>, error |-> ""]
Returned(v) == [status |-> "returned", value |-> v, error |-> ""]

\* The stored backtest and the background function that completes it.
NoRow == [status |-> "none", results |-> <<>>, completedAt |-> "null"]
NoJob == [at |-> "none", caught |-> "nothing"]
NoCaller == backtest = NoRow /\ job = NoJob /\ given = <<>> /\ earlier = <<>>
\* The alert monitor is not running.
NoMonitor ==
  /\ alertRows = <<>> /\ passes = <<>> /\ clientsByUser = <<>>
  /\ readyState = <<>> /\ sent = <<>>

Init ==
  /\ params \in {[cryptoId |-> "bitcoin", strategyName |-> sn,
                  startDate |-> r[1], endDate |-> r[2]] :
                   sn \in StrategyNames, r \in DateRanges}
  /\ pc = "fetch"
  /\ attempts = 0
  /\ loaderError = NoError
  /\ ohlc = <<>>
  /\ smaShort = <<>> /\ smaLong = <<>> /\ rsi = <<>>
  /\ i = 0
  /\ position = "null"
  /\ entryPrice = 0 /\ entryTime = 0
  /\ trades = <<>>
  /\ capitalArg = <<>>
  /\ results = <<>>
  /\ outcome = Pending
  /\ transitions = <<>>
  /\ calls = [fetch |-> 0, execute |-> 0, metrics |-> 0]
  /\ call = NoCall
  /\ ret = NotReturned
  /\ upstream = "daily"
  /\ response = <<>>
  /\ NoCaller
  /\ NoMonitor

\* ------------------------------------------- runBacktest: the data fetch
\* One attempt of the function pRetry runs: the upstream answers 200 with a
\* price feed and fetchHistoricalData returns its candles.
FetchOk ==
  /\ pc = "fetch"
  /\ \E prices \in Upstream(upstream) :
       /\ response' = prices
       /\ ohlc' = ToOHLC(prices)
  /\ calls' = [calls EXCEPT !.fetch = @ + 1]
  /\ pc' = "check"
  /\ UNCHANGED <<outside, call, ret, params, attempts,
                 loaderError, strategyVars, capitalArg, results, outcome>>

\* One attempt that the upstream answers with a status that is not ok, and
\* pRetry has retries left.
FetchRetry ==
  /\ pc = "fetch"
  /\ attempts < Retries
  /\ \E status \in Statuses \ {200} : TRUE
  /\ attempts' = attempts + 1
  /\ calls' = [calls EXCEPT !.fetch = @ + 1]
  /\ UNCHANGED <<outside, response, call, ret, params, pc, loaderError, ohlc, strategyVars, capitalArg,
                 results, outcome>>

\* Variant: the final failure is swallowed and an empty series returned.
FetchFailSwallowed ==
  /\ pc = "fetch"
  /\ attempts = Retries
  /\ \E status \in Statuses \ {200} : loaderError' = ApiError(status)
  /\ ohlc' = <<>>
  /\ calls' = [calls EXCEPT !.fetch = @ + 1]
  /\ pc' = "check"
  /\ UNCHANGED <<outside, response, call, ret, params, attempts, strategyVars, capitalArg, results, outcome>>

\* The last attempt fails too: pRetry rejects with that attempt's error,
\* fetchHistoricalData with it, and runBacktest's await rethrows it.
FetchFail ==
  /\ pc = "fetch"
  /\ attempts = Retries
  /\ \E status \in Statuses \ {200} :
       /\ loaderError' = ApiError(status)
       /\ outcome' = Rejected(ApiError(status))
  /\ calls' = [calls EXCEPT !.fetch = @ + 1]
  /\ pc' = "done"
  /\ UNCHANGED <<outside, response, call, ret, params, attempts, ohlc, strategyVars, capitalArg, results>>

\* Variant: the strategy is run although the length check failed.
CheckLengthGoesOn ==
  /\ pc = "check"
  /\ IF Len(ohlc) < MinCandles
       THEN /\ outcome' = Rejected(NotEnoughData)
            /\ pc' = "execute"
       ELSE /\ outcome' = outcome
            /\ pc' = "execute"
  /\ UNCHANGED <<outside, response, call, ret, params, attempts, loaderError, ohlc,
                 strategyVars, capitalArg, results, calls>>

\* Variant: the length check off by one.
CheckLengthOffByOne ==
  /\ pc = "check"
  /\ IF Len(ohlc) <= MinCandles
       THEN /\ outcome' = Rejected(NotEnoughData)
            /\ pc' = "done"
       ELSE /\ outcome' = outcome
            /\ pc' = "execute"
  /\ UNCHANGED <<outside, response, call, ret, params, attempts, loaderError, ohlc, strategyVars, capitalArg,
                 results, calls>>

\* if (ohlc.length < 30) throw
CheckLength ==
  /\ pc = "check"
  /\ IF Len(ohlc) < MinCandles
       THEN /\ outcome' = Rejected(NotEnoughData)
            /\ pc' = "done"
       ELSE /\ outcome' = outcome
            /\ pc' = "execute"
  /\ UNCHANGED <<outside, response, call, ret, params, attempts, loaderError, ohlc, strategyVars, capitalArg,
                 results, calls>>

\* --------------------------------------------------------- executeStrategy
Closes(candles) == [k \in 1..Len(candles) |-> candles[k].close]

\* Variant: the percentage taken of the exit price.
TradeOfExitBase(entryP, entryT, candle) ==
  LET exitPrice == candle.close
      profit == exitPrice - entryP
      profitPercent == RatMul(Frac(profit, exitPrice), Whole(Percent))
  IN  [entryTime |-> entryT,
       exitTime |-> candle.timestamp,
       entryPrice |-> entryP,
       exitPrice |-> exitPrice,
       type |-> "buy",
       profit |-> profit,
       profitPercent |-> profitPercent]

\* The Trade pushed when a position entered at (entryP, entryT) is closed on
\* `candle`.
TradeOf(entryP, entryT, candle) ==
  LET exitPrice == candle.close
      profit == exitPrice - entryP
      profitPercent == RatMul(Frac(profit, entryP), Whole(Percent))
  IN  [entryTime |-> entryT,
       exitTime |-> candle.timestamp,
       entryPrice |-> entryP,
       exitPrice |-> exitPrice,
       type |-> "buy",
       profit |-> profit,
       profitPercent |-> profitPercent]

\* Variant: a buy signal that takes the averages touching for a cross.
SMABuySignalLoose(prevShort, prevLong, currShort, currLong, pos) ==
  RatLe(prevShort, prevLong) /\ RatGe(currShort, currLong) /\ pos = "null"
\* Variant: a buy signal on the short average being above, cross or not.
SMABuySignalNoCross(prevShort, prevLong, currShort, currLong, pos) ==
  RatGt(currShort, currLong) /\ pos = "null"
\* Variant: a buy signal that wants the short average strictly below before.
SMABuySignalStrictPrev(prevShort, prevLong, currShort, currLong, pos) ==
  RatLt(prevShort, prevLong) /\ RatGt(currShort, currLong) /\ pos = "null"
\* Buy signal: the short average crosses above the long one, no position.
SMABuySignal(prevShort, prevLong, currShort, currLong, pos) ==
  RatLe(prevShort, prevLong) /\ RatGt(currShort, currLong) /\ pos = "null"
\* Sell signal: the short average crosses below the long one, position long.
SMASellSignal(prevShort, prevLong, currShort, currLong, pos) ==
  RatGe(prevShort, prevLong) /\ RatLt(currShort, currLong) /\ pos = "long"
\* Variant: the buy signal without the no-position condition.
RSIBuySignalUnguarded(currRSI, pos) == RatLt(currRSI, Whole(RSIOversold))
RSIBuySignal(currRSI, pos) == RatLt(currRSI, Whole(RSIOversold)) /\ pos = "null"
RSISellSignal(currRSI, pos) == RatGt(currRSI, Whole(RSIOverbought)) /\ pos = "long"

\* Variant: an entry that leaves entryTime as it was.
EnterKeepsTime(candle) ==
  /\ position' = "long"
  /\ entryPrice' = candle.close
  /\ entryTime' = entryTime
  /\ transitions' = Append(transitions, "enter")
  /\ UNCHANGED trades

\* position = 'long'; entryPrice = ...; entryTime = ...
Enter(candle) ==
  /\ position' = "long"
  /\ entryPrice' = candle.close
  /\ entryTime' = candle.timestamp
  /\ transitions' = Append(transitions, "enter")
  /\ UNCHANGED trades

\* trades.push({...}); position = null
Exit(candle) ==
  /\ trades' = Append(trades, TradeOf(entryPrice, entryTime, candle))
  /\ position' = "null"
  /\ transitions' = Append(transitions, "exit")
  /\ UNCHANGED <<entryPrice, entryTime>>

Hold == UNCHANGED <<position, entryPrice, entryTime, trades, transitions>>

\* Variant: no forced close, an open position is dropped.
ForcedCloseSkipped == Hold

\* Close any open position at the end.
ForcedClose ==
  IF position = "long" THEN Exit(ohlc[Len(ohlc)]) ELSE Hold

\* Variant: the trade list outlives the call.
BeginSMAKeepsTrades ==
  /\ pc = "execute"
  /\ params.strategyName = SMACrossover
  /\ smaShort' = calculateSMA(Closes(ohlc), ShortPeriod)
  /\ smaLong' = calculateSMA(Closes(ohlc), LongPeriod)
  /\ i' = SMAStart
  /\ position' = "null" /\ entryPrice' = 0 /\ entryTime' = 0
  /\ trades' = trades
  /\ calls' = [calls EXCEPT !.execute = @ + 1]
  /\ pc' = "smaLoop"
  /\ UNCHANGED <<outside, response, call, ret, params, attempts, loaderError, ohlc, rsi,
                 capitalArg, results, outcome, transitions>>

BeginSMA ==
  /\ pc = "execute"
  /\ params.strategyName = SMACrossover
  /\ smaShort' = calculateSMA(Closes(ohlc), ShortPeriod)
  /\ smaLong' = calculateSMA(Closes(ohlc), LongPeriod)
  /\ i' = SMAStart
  /\ position' = "null" /\ entryPrice' = 0 /\ entryTime' = 0
  /\ trades' = <<>>
  /\ calls' = [calls EXCEPT !.execute = @ + 1]
  /\ pc' = "smaLoop"
  /\ UNCHANGED <<outside, response, call, ret, params, attempts, loaderError, ohlc, rsi, capitalArg, results,
                 outcome, transitions>>

\* One iteration of the SMA loop.
SMAStep ==
  /\ pc = "smaLoop"
  /\ i < Len(ohlc)
  /\ LET prevShort == At(smaShort, i - 1)
         prevLong == At(smaLong, i - 1)
         currShort == At(smaShort, i)
         currLong == At(smaLong, i)
     IN  IF isNaN(prevShort) \/ isNaN(prevLong) THEN Hold
         ELSE IF SMABuySignal(prevShort, prevLong, currShort, currLong, position)
           THEN Enter(ohlc[i + 1])
         ELSE IF SMASellSignal(prevShort, prevLong, currShort, currLong, position)
           THEN Exit(ohlc[i + 1])
         ELSE Hold
  /\ i' = i + 1
  /\ UNCHANGED <<outside, response, call, ret, params, pc, attempts, loaderError, ohlc, smaShort, smaLong, rsi,
                 capitalArg, results, outcome, calls>>

\* The SMA loop is over: forced close, return trades.
SMAFinish ==
  /\ pc = "smaLoop"
  /\ i >= Len(ohlc)
  /\ ForcedClose
  /\ pc' = "metrics"
  /\ UNCHANGED <<outside, response, call, ret, params, attempts, loaderError, ohlc, smaShort, smaLong, rsi, i,
                 capitalArg, results, outcome, calls>>

BeginRSI ==
  /\ pc = "execute"
  /\ params.strategyName = RSIStrategy
  /\ rsi' = calculateRSI(Closes(ohlc), RSIPeriod)
  /\ i' = RSIStart
  /\ position' = "null" /\ entryPrice' = 0 /\ entryTime' = 0
  /\ trades' = <<>>
  /\ calls' = [calls EXCEPT !.execute = @ + 1]
  /\ pc' = "rsiLoop"
  /\ UNCHANGED <<outside, response, call, ret, params, attempts, loaderError, ohlc, smaShort, smaLong,
                 capitalArg, results, outcome, transitions>>

\* Variant: candle i is judged by the RSI of the change that ends on it.
RSIStepAligned ==
  /\ pc = "rsiLoop"
  /\ i < Len(ohlc)
  /\ LET currRSI == At(rsi, i - 1)
     IN  IF isNaN(currRSI) THEN Hold
         ELSE IF RSIBuySignal(currRSI, position) THEN Enter(ohlc[i + 1])
         ELSE IF RSISellSignal(currRSI, position) THEN Exit(ohlc[i + 1])
         ELSE Hold
  /\ i' = i + 1
  /\ UNCHANGED <<outside, response, call, ret, params, pc, attempts, loaderError, ohlc,
                 smaShort, smaLong, rsi, capitalArg, results, outcome, calls>>

\* One iteration of the RSI loop.
RSIStep ==
  /\ pc = "rsiLoop"
  /\ i < Len(ohlc)
  /\ LET currRSI == At(rsi, i)
     IN  IF isNaN(currRSI) THEN Hold
         ELSE IF RSIBuySignal(currRSI, position) THEN Enter(ohlc[i + 1])
         ELSE IF RSISellSignal(currRSI, position) THEN Exit(ohlc[i + 1])
         ELSE Hold
  /\ i' = i + 1
  /\ UNCHANGED <<outside, response, call, ret, params, pc, attempts, loaderError, ohlc, smaShort, smaLong, rsi,
                 capitalArg, results, outcome, calls>>

\* The RSI loop is over: forced close, return trades.
RSIFinish ==
  /\ pc = "rsiLoop"
  /\ i >= Len(ohlc)
  /\ ForcedClose
  /\ pc' = "metrics"
  /\ UNCHANGED <<outside, response, call, ret, params, attempts, loaderError, ohlc, smaShort, smaLong, rsi, i,
                 capitalArg, results, outcome, calls>>

\* Any other strategy name: neither branch runs, the empty list is returned.
OtherStrategy ==
  /\ pc = "execute"
  /\ params.strategyName \notin {SMACrossover, RSIStrategy}
  /\ trades' = <<>>
  /\ position' = "null" /\ entryPrice' = 0 /\ entryTime' = 0
  /\ calls' = [calls EXCEPT !.execute = @ + 1]
  /\ pc' = "metrics"
  /\ UNCHANGED <<outside, response, call, ret, params, attempts, loaderError, ohlc, smaShort, smaLong, rsi, i,
                 capitalArg, results, outcome, transitions>>

\* -------------------------------------------------------- calculateMetrics
RECURSIVE SumProfit(_)
SumProfit(ts) == IF ts = <<>> THEN 0 ELSE ts[1].profit + SumProfit(Tail(ts))

RECURSIVE RatSum(_)
RatSum(rs) == IF rs = <<>> THEN Whole(0) ELSE RatAdd(rs[1], RatSum(Tail(rs)))

\* ------------------------------------------------ binary64 (IEEE 754)
\* The numbers calculateMetrics adds and divides for the Sharpe ratio, as
\* JavaScript holds them: sign * mantissa * 2^exponent with a mantissa of
\* exactly MantissaBits bits, results rounded to nearest, ties to even.
\* Mantissas are naturals written in base Limb, most significant limb
\* first, without leading zero limbs (so 0 is <<>>).  Subnormals, overflow
\* and the sign of zero are out of reach of the values used and left out.
Limb == 65536
LimbBits == 16
MantissaBits == 53

RECURSIVE Strip(_)
Strip(a) == IF a # <<>> /\ a[1] = 0 THEN Strip(Tail(a)) ELSE a
NatOf(n) ==
  IF n = 0 THEN <<>> ELSE IF n < Limb THEN <<n>> ELSE <<n \div Limb, n % Limb>>
\* The limb of weight Limb^(j - 1).
LimbAt(a, j) == IF j <= Len(a) THEN a[Len(a) + 1 - j] ELSE 0
Zeros(n) == [k \in 1..n |-> 0]

BigAdd(a, b) ==
  LET RECURSIVE Go(_, _)
      Go(j, carry) ==
        IF j > Len(a) /\ j > Len(b) THEN NatOf(carry)
        ELSE LET t == LimbAt(a, j) + LimbAt(b, j) + carry
             IN  Append(Go(j + 1, t \div Limb), t % Limb)
  IN  Go(1, 0)
\* a - b for a >= b.
BigSub(a, b) ==
  LET RECURSIVE Go(_, _)
      Go(j, borrow) ==
        IF j > Len(a) THEN <<>>
        ELSE LET t == LimbAt(a, j) - LimbAt(b, j) - borrow
             IN  IF t < 0 THEN Append(Go(j + 1, 1), t + Limb)
                 ELSE Append(Go(j + 1, 0), t)
  IN  Strip(Go(1, 0))
BigLt(a, b) ==
  \/ Len(a) < Len(b)
  \/ /\ Len(a) = Len(b)
     /\ \E k \in 1..Len(a) : a[k] < b[k] /\ \A j \in 1..(k - 1) : a[j] = b[j]
\* a * c for 0 < c <= Limb \div 2.
MulSmall(a, c) ==
  LET RECURSIVE Go(_, _)
      Go(j, carry) ==
        IF j > Len(a) THEN NatOf(carry)
        ELSE LET t == LimbAt(a, j) * c + carry
             IN  Append(Go(j + 1, t \div Limb), t % Limb)
  IN  Go(1, 0)
\* Quotient and remainder of a by q, 0 < q <= Limb \div 2.
DivSmall(a, q) ==
  LET RECURSIVE Go(_, _, _)
      Go(k, rem, acc) ==
        IF k > Len(a) THEN [q |-> Strip(acc), r |-> rem]
        ELSE LET t == rem * Limb + a[k]
             IN  Go(k + 1, t % q, Append(acc, t \div q))
  IN  Go(1, 0, <<>>)
BitLen(a) ==
  IF a = <<>> THEN 0
  ELSE LimbBits * (Len(a) - 1)
       + CHOOSE b \in 1..LimbBits : 2^(b - 1) <= a[1] /\ a[1] < 2^b
ShiftLeft(a, k) ==
  IF a = <<>> THEN <<>>
  ELSE MulSmall(a \o Zeros(k \div LimbBits), 2^(k % LimbBits))

\* a without its d lowest bits (d > 0), rounded to nearest, ties to even;
\* `sticky` says that the exact value lies above a by less than one unit.
RoundOff(a, d, sticky) ==
  LET w == d \div LimbBits
      k == d % LimbBits
      dropped == SubSeq(a, Len(a) - w + 1, Len(a))
      dv == DivSmall(SubSeq(a, 1, Len(a) - w), 2^k)
      q == dv.q
      below == sticky \/ \E j \in (IF k = 0 THEN 2 ELSE 1)..w : dropped[j] # 0
      top == IF k = 0 THEN dropped[1] ELSE dv.r
      half == IF k = 0 THEN Limb \div 2 ELSE 2^(k - 1)
      odd == q # <<>> /\ q[Len(q)] % 2 = 1
      up == top > half \/ (top = half /\ (below \/ odd))
  IN  IF up THEN BigAdd(q, <<1>>) ELSE q

DblZero == [s |-> 0, m |-> <<>>, e |-> 0]
\* The binary64 nearest to s * a * 2^e (a # 0); with `sticky` the exact value
\* lies above a by less than one unit, and a has more than MantissaBits bits.
DblRound(s, a, e, sticky) ==
  LET len == BitLen(a)
      d == len - MantissaBits
  IN  IF d <= 0 THEN [s |-> s, m |-> ShiftLeft(a, -d), e |-> e + d]
      ELSE LET m1 == RoundOff(a, d, sticky)
           IN  IF BitLen(m1) > MantissaBits
                 THEN [s |-> s, m |-> DivSmall(m1, 2).q, e |-> e + d + 1]
                 ELSE [s |-> s, m |-> m1, e |-> e + d]

\* p / q in binary64, for whole p and q with 0 < q <= Limb \div 2.
DblQuot(p, q) ==
  IF p = 0 THEN DblZero
  ELSE LET k == MantissaBits + 2 + LimbBits
           dv == DivSmall(ShiftLeft(NatOf(Abs(p)), k), q)
       IN  DblRound(IF p < 0 THEN -1 ELSE 1, dv.q, -k, dv.r # 0)
\* x * c in binary64, for a whole c with 0 < c <= Limb \div 2.
DblTimes(x, c) ==
  IF x.s = 0 THEN DblZero ELSE DblRound(x.s, MulSmall(x.m, c), x.e, FALSE)
\* x / n in binary64, for a whole n with 0 < n <= Limb \div 2.
DblOver(x, n) ==
  IF x.s = 0 THEN DblZero
  ELSE LET k == 2 + LimbBits
           dv == DivSmall(ShiftLeft(x.m, k), n)
       IN  DblRound(x.s, dv.q, x.e - k, dv.r # 0)
\* x + y in binary64.
DblAdd(x, y) ==
  IF x.s = 0 THEN y
  ELSE IF y.s = 0 THEN x
  ELSE LET e == Min(x.e, y.e)
           a == ShiftLeft(x.m, x.e - e)
           b == ShiftLeft(y.m, y.e - e)
       IN  IF x.s = y.s THEN DblRound(x.s, BigAdd(a, b), e, FALSE)
           ELSE IF a = b THEN DblZero
           ELSE IF BigLt(a, b) THEN DblRound(y.s, BigSub(b, a), e, FALSE)
           ELSE DblRound(x.s, BigSub(a, b), e, FALSE)
RECURSIVE DblSum(_, _)
\* returns.reduce((a, b) => a + b, 0), from the accumulator acc on.
DblSum(xs, acc) == IF xs = <<>> THEN acc ELSE DblSum(Tail(xs), DblAdd(acc, xs[1]))

RECURSIVE DrawdownLoopFixedPeak(_, _, _, _)
\* Variant: the drawdown is measured from the initial capital, not the peak.
DrawdownLoopFixedPeak(ts, capital, peak, maxDrawdown) ==
  IF ts = <<>> THEN maxDrawdown
  ELSE LET capital2 == capital + ts[1].profit
           drawdown == Frac(peak - capital2, peak)
       IN  DrawdownLoopFixedPeak(Tail(ts), capital2, peak,
                                 IF RatGt(drawdown, maxDrawdown) THEN drawdown ELSE maxDrawdown)

RECURSIVE DrawdownLoop(_, _, _, _)
\* The loop over the trades, from (capital, peak, maxDrawdown).
DrawdownLoop(ts, capital, peak, maxDrawdown) ==
  IF ts = <<>> THEN maxDrawdown
  ELSE LET capital2 == capital + ts[1].profit
           peak2 == IF capital2 > peak THEN capital2 ELSE peak
           drawdown == Frac(peak2 - capital2, peak2)
       IN  DrawdownLoop(Tail(ts), capital2, peak2,
                        IF RatGt(drawdown, maxDrawdown) THEN drawdown ELSE maxDrawdown)

\* A Sharpe value sgn * sqrt(sq) * sqrt(root), kept exact: sq is
\* (avgReturn / stdDev)^2 and root the number under the annualizing root.
SharpeZero == [sgn |-> 0, sq |-> Whole(0), root |-> 1]
\* `returns` are the exact values of the profitPercent fields and `doubles`
\* the binary64 numbers held there.  Whether stdDev > 0, and the sign of
\* avgReturn, are computed in binary64 as the engine computes them: stdDev
\* is positive exactly when some r - avgReturn is not zero (no square or
\* quotient here underflows).  sq is the exact (avgReturn / stdDev)^2, NaN
\* when the exact variance is zero.
SharpeOf(returns, doubles) ==
  LET n == Whole(Len(returns))
      avgReturn == RatDiv(RatSum(returns), n)
      squares == [k \in 1..Len(returns) |->
                    RatMul(RatSub(returns[k], avgReturn), RatSub(returns[k], avgReturn))]
      variance == RatDiv(RatSum(squares), n)
      avgReturn64 == DblOver(DblSum(doubles, DblZero), Len(doubles))
      stdDevPositive == \E k \in 1..Len(doubles) : doubles[k] # avgReturn64
  IN  IF stdDevPositive
        THEN [sgn |-> avgReturn64.s,
              sq |-> RatDiv(RatMul(avgReturn, avgReturn), variance),
              root |-> AnnualizationDays]
        ELSE SharpeZero

\* The binary64 number executeStrategy stored in t.profitPercent:
\* (profit / entryPrice) * 100.
PercentDouble(t) == DblTimes(DblQuot(t.profit, t.entryPrice), Percent)

\* The initialCapital parameter: its default when the argument is omitted
\* (InsertBacktest has no initialCapital, so runBacktest always omits it).
CapitalOf(arg) == IF arg = <<>> THEN DefaultInitialCapital ELSE arg[1]

\* Variant: the sample is the last 20 trades.
SampleOfNewest(ts) == Slice(ts, -TradeSampleCap, Len(ts))
\* trades.slice(0, 20)
SampleOf(ts) == Slice(ts, 0, TradeSampleCap)

\* Variant: a trade that breaks even counts as a win.
WinsOrEven(ts) == SelectSeq(ts, LAMBDA t : t.profit >= 0)
\* trades.filter(t => t.profit > 0) and trades.filter(t => t.profit < 0)
Wins(ts) == SelectSeq(ts, LAMBDA t : t.profit > 0)
Losses(ts) == SelectSeq(ts, LAMBDA t : t.profit < 0)

\* Variant: the quotient without the guards.
ProfitFactorUnguarded(grossProfit, grossLoss) == Frac(grossProfit, grossLoss)
\* grossLoss > 0 ? grossProfit / grossLoss : grossProfit > 0 ? 999 : 0
ProfitFactorOf(grossProfit, grossLoss) ==
  IF grossLoss > 0 THEN Frac(grossProfit, grossLoss)
  ELSE IF grossProfit > 0 THEN Whole(NoLossProfitFactor)
  ELSE Whole(0)

calculateMetrics(ts, arg) ==
  IF Len(ts) = 0
    THEN [winRate |-> Whole(0), profitFactor |-> Whole(0), maxDrawdown |-> Whole(0),
          sharpe |-> SharpeZero, totalTrades |-> 0, trades |-> <<>>]
    ELSE LET wins == Wins(ts)
             losses == Losses(ts)
             grossProfit == SumProfit(wins)
             grossLoss == Abs(SumProfit(losses))
             initialCapital == CapitalOf(arg)
         IN  [winRate |-> Frac(Len(wins), Len(ts)),
              profitFactor |-> ProfitFactorOf(grossProfit, grossLoss),
              maxDrawdown |-> DrawdownLoop(ts, initialCapital, initialCapital, Whole(0)),
              sharpe |-> SharpeOf([k \in 1..Len(ts) |-> ts[k].profitPercent],
                                  [k \in 1..Len(ts) |-> PercentDouble(ts[k])]),
              totalTrades |-> Len(ts),
              trades |-> SampleOf(ts)]

\* const results = calculateMetrics(trades, params.initialCapital)
CalculateMetrics ==
  /\ pc = "metrics"
  /\ results' = <<calculateMetrics(trades, capitalArg)>>
  /\ calls' = [calls EXCEPT !.metrics = @ + 1]
  /\ pc' = "return"
  /\ UNCHANGED <<outside, response, call, ret, params, attempts, loaderError, ohlc, strategyVars, capitalArg,
                 outcome>>

\* return results
Return ==
  /\ pc = "return"
  /\ outcome' = Fulfilled
  /\ pc' = "done"
  /\ UNCHANGED <<outside, response, call, ret, params, attempts, loaderError, ohlc, strategyVars, capitalArg,
                 results, calls>>

Next ==
  \/ FetchOk
  \/ FetchRetry
  \/ FetchFail
  \/ CheckLength
  \/ BeginSMA
  \/ SMAStep
  \/ SMAFinish
  \/ BeginRSI
  \/ RSIStep
  \/ RSIFinish
  \/ OtherStrategy
  \/ CalculateMetrics
  \/ Return

Spec == Init /\ [][Next]_vars

\* ---------------------------------------- calculateMetrics taken on its own
\* Trade lists for calculateMetrics as a function: 0..MaxTrades round trips,
\* one per two days, each entered at the same one of EntryPrices, whose
\* profits repeat a pattern of at most MaxSeed values of Profits.  Entered
\* at 100 the percentages are whole numbers; entered at 90 they are not and
\* have no exact binary64 value.
EntryPrices == {90, 100}
Profits == {-6, 0, 4}
CapitalArgs == {<<>>, <<12>>}

RECURSIVE SeedsOfLen(_)
SeedsOfLen(n) ==
  IF n = 0 THEN {<<>>}
  ELSE {Append(t, p) : t \in SeedsOfLen(n - 1), p \in Profits}
Seeds == UNION {SeedsOfLen(n) : n \in 1..MaxSeed}

TradeListOf(entry, n, seed) ==
  [k \in 1..n |->
     TradeOf(entry, (2 * k - 1) * HoursPerDay,
             [timestamp |-> 2 * k * HoursPerDay,
              close |-> entry + seed[((k - 1) % Len(seed)) + 1]])]

TradeLists ==
  {TradeListOf(entry, n, seed) : entry \in EntryPrices, n \in 0..MaxTrades, seed \in Seeds}

InitMetrics ==
  /\ params = [cryptoId |-> "bitcoin", strategyName |-> SMACrossover,
               startDate |-> 1, endDate |-> 45]
  /\ pc = "metrics"
  /\ attempts = 0
  /\ loaderError = NoError
  /\ ohlc = <<>>
  /\ smaShort = <<>> /\ smaLong = <<>> /\ rsi = <<>>
  /\ i = 0
  /\ position = "null"
  /\ entryPrice = 0 /\ entryTime = 0
  /\ trades \in TradeLists
  /\ capitalArg \in CapitalArgs
  /\ results = <<>>
  /\ outcome = Pending
  /\ transitions = <<>>
  /\ calls = [fetch |-> 0, execute |-> 0, metrics |-> 0]
  /\ call = NoCall
  /\ ret = NotReturned
  /\ upstream = "daily"
  /\ response = <<>>
  /\ NoCaller
  /\ NoMonitor

NextMetrics == CalculateMetrics

SpecMetrics == InitMetrics /\ [][NextMetrics]_vars

\* ------------------------------------- the loader on raw price feeds
\* runBacktest up to its length check, the upstream answering with raw
\* feeds: a few points, in any order, several on one day.
InitLoader ==
  /\ params = [cryptoId |-> "bitcoin", strategyName |-> SMACrossover,
               startDate |-> 1, endDate |-> 45]
  /\ pc = "fetch"
  /\ attempts = 0
  /\ loaderError = NoError
  /\ ohlc = <<>>
  /\ smaShort = <<>> /\ smaLong = <<>> /\ rsi = <<>>
  /\ i = 0
  /\ position = "null"
  /\ entryPrice = 0 /\ entryTime = 0
  /\ trades = <<>>
  /\ capitalArg = <<>>
  /\ results = <<>>
  /\ outcome = Pending
  /\ transitions = <<>>
  /\ calls = [fetch |-> 0, execute |-> 0, metrics |-> 0]
  /\ call = NoCall
  /\ ret = NotReturned
  /\ upstream = "raw"
  /\ response = <<>>
  /\ NoCaller
  /\ NoMonitor

NextLoader ==
  \/ FetchOk
  \/ FetchRetry
  \/ FetchFail
  \/ CheckLength

SpecLoader == InitLoader /\ [][NextLoader]_vars

\* ------------------------------------------------- POST /api/backtests
\* The request handler stores the backtest and starts a background function
\* that awaits runBacktest(data) and records how it ended.
InitRoute ==
  /\ params \in {[cryptoId |-> "bitcoin", strategyName |-> sn,
                  startDate |-> r[1], endDate |-> r[2]] :
                   sn \in StrategyNames, r \in DateRanges}
  /\ pc = "idle"
  /\ attempts = 0
  /\ loaderError = NoError
  /\ ohlc = <<>>
  /\ smaShort = <<>> /\ smaLong = <<>> /\ rsi = <<>>
  /\ i = 0
  /\ position = "null"
  /\ entryPrice = 0 /\ entryTime = 0
  /\ trades = <<>>
  /\ capitalArg = <<>>
  /\ results = <<>>
  /\ outcome = Pending
  /\ transitions = <<>>
  /\ calls = [fetch |-> 0, execute |-> 0, metrics |-> 0]
  /\ call = NoCall
  /\ ret = NotReturned
  /\ upstream = "sample"
  /\ response = <<>>
  /\ backtest = NoRow
  /\ job = [at |-> "request", caught |-> "nothing"]
  /\ given = <<>> /\ earlier = <<>>
  /\ NoMonitor

routeUnchanged ==
  UNCHANGED <<monitorVars, given, earlier, upstream, response, call, ret, params,
              attempts, loaderError, ohlc, strategyVars, capitalArg, results,
              outcome, calls>>

\* No user, a body the schema rejects, or createBacktest throws: an error
\* answer and nothing stored.
RefuseRequest ==
  /\ job.at = "request"
  /\ job' = [job EXCEPT !.at = "end"]
  /\ UNCHANGED <<backtest, pc>>
  /\ routeUnchanged

\* storage.createBacktest(data), then the background function is started
\* and calls runBacktest(data).
CreateBacktest ==
  /\ job.at = "request"
  /\ backtest' = [status |-> "pending", results |-> <<>>, completedAt |-> "null"]
  /\ job' = [job EXCEPT !.at = "await"]
  /\ pc' = "fetch"
  /\ routeUnchanged

\* runBacktest returned: updateBacktest(completed, results, completedAt)
\* is applied.
CompleteOk ==
  /\ job.at = "await" /\ pc = "done" /\ outcome = Fulfilled
  /\ backtest' = [status |-> "completed", results |-> results, completedAt |-> "set"]
  /\ job' = [job EXCEPT !.at = "end"]
  /\ UNCHANGED pc
  /\ routeUnchanged

\* Variant: the completing update throws after the row was written.
CompleteThrowsWritten ==
  /\ job.at = "await" /\ pc = "done" /\ outcome = Fulfilled
  /\ backtest' = [status |-> "completed", results |-> results, completedAt |-> "set"]
  /\ job' = [at |-> "catch", caught |-> "updateBacktest"]
  /\ UNCHANGED pc
  /\ routeUnchanged

\* runBacktest returned but the completing update throws, the row as it was.
CompleteThrows ==
  /\ job.at = "await" /\ pc = "done" /\ outcome = Fulfilled
  /\ job' = [at |-> "catch", caught |-> "updateBacktest"]
  /\ UNCHANGED <<backtest, pc>>
  /\ routeUnchanged

\* runBacktest threw: the catch block is entered.
CatchRunError ==
  /\ job.at = "await" /\ pc = "done" /\ outcome.state = "rejected"
  /\ job' = [at |-> "catch", caught |-> "runBacktest"]
  /\ UNCHANGED <<backtest, pc>>
  /\ routeUnchanged

\* The catch block's updateBacktest(failed) is applied.
FailOk ==
  /\ job.at = "catch"
  /\ backtest' = [backtest EXCEPT !.status = "failed"]
  /\ job' = [job EXCEPT !.at = "end"]
  /\ UNCHANGED pc
  /\ routeUnchanged

\* The catch block's update throws too: the row stays as it was.
FailThrows ==
  /\ job.at = "catch"
  /\ job' = [job EXCEPT !.at = "unhandled"]
  /\ UNCHANGED <<backtest, pc>>
  /\ routeUnchanged

NextRoute ==
  \/ RefuseRequest
  \/ CreateBacktest
  \/ Next
  \/ CompleteOk
  \/ CompleteThrows
  \/ CatchRunError
  \/ FailOk
  \/ FailThrows

SpecRoute == InitRoute /\ [][NextRoute]_vars

\* ------------------- executeStrategy and calculateMetrics, call after call
\* The two functions are synchronous, so calls of them never interleave:
\* one call after another, each with its own candles, strategy name and
\* initialCapital.  What a call left in the variables of the functions is
\* still there when the next call begins.
RunInputs ==
  {[candles |-> ToOHLC(FeedOf(s)), strategyName |-> sn, capital |-> c] :
     s \in SampleSeries, sn \in {SMACrossover, RSIStrategy}, c \in CapitalArgs}

InitRuns ==
  /\ \E input \in RunInputs :
       /\ params = [cryptoId |-> "bitcoin", strategyName |-> input.strategyName,
                    startDate |-> 1, endDate |-> 45]
       /\ ohlc = input.candles
       /\ given = input.candles
       /\ capitalArg = input.capital
  /\ pc = "execute"
  /\ attempts = 0
  /\ loaderError = NoError
  /\ smaShort = <<>> /\ smaLong = <<>> /\ rsi = <<>>
  /\ i = 0
  /\ position = "null"
  /\ entryPrice = 0 /\ entryTime = 0
  /\ trades = <<>>
  /\ results = <<>>
  /\ outcome = Pending
  /\ transitions = <<>>
  /\ calls = [fetch |-> 0, execute |-> 0, metrics |-> 0]
  /\ call = NoCall
  /\ ret = NotReturned
  /\ upstream = "sample"
  /\ response = <<>>
  /\ backtest = NoRow /\ job = NoJob
  /\ earlier = <<>>
  /\ NoMonitor

\* The call that has just returned: what it was given and what it returned.
ThisRun ==
  [candles |-> given, strategyName |-> params.strategyName, capital |-> capitalArg,
   candlesAfter |-> ohlc, trades |-> trades, results |-> results[1]]

\* The next call of executeStrategy and calculateMetrics, with any input.
Again ==
  /\ pc = "done"
  /\ outcome = Fulfilled
  /\ \E input \in RunInputs :
       /\ params' = [params EXCEPT !.strategyName = input.strategyName]
       /\ ohlc' = input.candles
       /\ given' = input.candles
       /\ capitalArg' = input.capital
  /\ earlier' \in {earlier, <<ThisRun>>}
  /\ results' = <<>>
  /\ outcome' = Pending
  /\ transitions' = <<>>
  /\ calls' = [fetch |-> 0, execute |-> 0, metrics |-> 0]
  /\ pc' = "execute"
  /\ UNCHANGED <<monitorVars, backtest, job, upstream, response, call, ret, attempts,
                 loaderError, smaShort, smaLong, rsi, i, position, entryPrice,
                 entryTime, trades>>

NextRuns ==
  \/ BeginSMA
  \/ SMAStep
  \/ SMAFinish
  \/ BeginRSI
  \/ RSIStep
  \/ RSIFinish
  \/ CalculateMetrics
  \/ Return
  \/ Again

SpecRuns == InitRuns /\ [][NextRuns]_vars

\* ------------------------------------ the indicator functions on their own
\* Arguments for calculateSMA and calculateRSI as functions: every sequence
\* of at most MaxData values of DataValues with a small period (zero and
\* negative periods and periods beyond the length included), and for
\* calculateRSI also the closes of the price feeds with its default period.
MaxData == 4
DataValues == {1, 2, 3, 4}
RECURSIVE DataOfLen(_)
DataOfLen(n) ==
  IF n = 0 THEN {<<>>}
  ELSE {Append(t, v) : t \in DataOfLen(n - 1), v \in DataValues}
DataSeqs == UNION {DataOfLen(n) : n \in 0..MaxData}
SMAPeriods == (-1)..(MaxData + 1)
RSIPeriods == {1, 2, 3}
IndicatorCalls ==
  {[fn |-> "calculateSMA", data |-> d, period |-> p] : d \in DataSeqs, p \in SMAPeriods}
  \cup {[fn |-> "calculateRSI", data |-> d, period |-> p] : d \in DataSeqs, p \in RSIPeriods}
  \cup {[fn |-> "calculateRSI", data |-> d, period |-> RSIPeriod] : d \in PriceSeries}

InitIndicators ==
  /\ params = [cryptoId |-> "bitcoin", strategyName |-> SMACrossover,
               startDate |-> 1, endDate |-> 45]
  /\ pc = "indicator"
  /\ attempts = 0
  /\ loaderError = NoError
  /\ ohlc = <<>>
  /\ smaShort = <<>> /\ smaLong = <<>> /\ rsi = <<>>
  /\ i = 0
  /\ position = "null"
  /\ entryPrice = 0 /\ entryTime = 0
  /\ trades = <<>>
  /\ capitalArg = <<>>
  /\ results = <<>>
  /\ outcome = Pending
  /\ transitions = <<>>
  /\ calls = [fetch |-> 0, execute |-> 0, metrics |-> 0]
  /\ call \in IndicatorCalls
  /\ ret = NotReturned
  /\ upstream = "daily"
  /\ response = <<>>
  /\ NoCaller
  /\ NoMonitor

indicatorUnchanged ==
  UNCHANGED <<outside, response, params, pc, attempts,
              loaderError, ohlc, strategyVars, capitalArg, results, outcome, calls, call>>

\* calculateSMA(data, period) runs to its return statement.
CallSMA ==
  /\ pc = "indicator"
  /\ call.fn = "calculateSMA"
  /\ ret = NotReturned
  /\ ret' = Returned(calculateSMA(call.data, call.period))
  /\ indicatorUnchanged

\* calculateRSI(prices, period) runs to its return statement.
CallRSI ==
  /\ pc = "indicator"
  /\ call.fn = "calculateRSI"
  /\ ret = NotReturned
  /\ ret' = Returned(calculateRSI(call.data, call.period))
  /\ indicatorUnchanged

NextIndicators ==
  \/ CallSMA
  \/ CallRSI

SpecIndicators == InitIndicators /\ [][NextIndicators]_vars

\* ================================================================ claims
KnownStrategy == params.strategyName \in {SMACrossover, RSIStrategy}
Entries == Cardinality({k \in 1..Len(transitions) : transitions[k] = "enter"})
Exits == Cardinality({k \in 1..Len(transitions) : transitions[k] = "exit"})
LastCandle == ohlc[Len(ohlc)]

\* C1: the position changes of one executeStrategy run alternate
\* enter, exit, enter, ... starting with an enter; the position is open
\* exactly after an odd number of changes (so at most one is open); every
\* exit made a trade and exits never outnumber entries.
C1_Alternation ==
  /\ \A k \in 1..Len(transitions) :
       transitions[k] = IF k % 2 = 1 THEN "enter" ELSE "exit"
  /\ position \in {"null", "long"}
  /\ (position = "long") <=> (Len(transitions) % 2 = 1)
  /\ Exits = Len(trades)
  /\ Exits <= Entries
\* A run that entered, exited and entered again.
C1_Witness == Len(transitions) >= 3 /\ position = "long"

\* C2: when the candle loop ends with the position long, exactly one more
\* trade is appended, exiting at the last candle's close and timestamp, and
\* the position is flat; when it ends flat nothing is appended; so the
\* trades returned are as many as the entries taken.
C2_ForcedCloseStep ==
  (pc \in {"smaLoop", "rsiLoop"} /\ pc' = "metrics") =>
    /\ position' = "null"
    /\ Len(trades') = Entries'
    /\ IF position = "long"
         THEN /\ Len(trades') = Len(trades) + 1
              /\ SubSeq(trades', 1, Len(trades)) = trades
              /\ trades'[Len(trades')].exitPrice = LastCandle.close
              /\ trades'[Len(trades')].exitTime = LastCandle.timestamp
              /\ trades'[Len(trades')].entryPrice = entryPrice
              /\ trades'[Len(trades')].entryTime = entryTime
         ELSE trades' = trades
C2_ForcedClose == [][C2_ForcedCloseStep]_vars
\* An RSI run returned a trade that exits on the last candle: the RSI loop
\* never acts on the last candle, so that exit is the forced close.
C2_Witness ==
  /\ params.strategyName = RSIStrategy
  /\ pc = "metrics"
  /\ Len(trades) >= 1
  /\ trades[Len(trades)].exitTime = LastCandle.timestamp

\* C3: every trade exits later than it entered.
C3_ExitAfterEntry ==
  \A k \in 1..Len(trades) : trades[k].exitTime > trades[k].entryTime

\* C4: totalTrades is the length of the whole list, trades is its first
\* min(20, length) elements in order, and winRate, profitFactor, maxDrawdown
\* and sharpe are those of the whole list.  The whole-list values are
\* stated from prefix sums, not by the engine's loops.
IndexSum(f(_), S) ==
  LET RECURSIVE Go(_)
      Go(T) == IF T = {} THEN 0
               ELSE LET x == CHOOSE y \in T : TRUE IN f(x) + Go(T \ {x})
  IN  Go(S)
CapitalAfter(k) == CapitalOf(capitalArg) + IndexSum(LAMBDA j : trades[j].profit, 1..k)
PeakAfter(k) ==
  LET caps == {CapitalAfter(j) : j \in 0..k}
  IN  CHOOSE c \in caps : \A d \in caps : d <= c
DrawdownAfter(k) == Frac(PeakAfter(k) - CapitalAfter(k), PeakAfter(k))
WholeReturns == \A k \in 1..Len(trades) : trades[k].profitPercent.den = 1
ReturnSum == IndexSum(LAMBDA j : trades[j].profitPercent.num, 1..Len(trades))
ReturnSquares ==
  IndexSum(LAMBDA j : trades[j].profitPercent.num * trades[j].profitPercent.num,
           1..Len(trades))
C4_FullListMetrics ==
  results # <<>> =>
    LET r == results[1]
        n == Len(trades)
        winners == {k \in 1..n : trades[k].profit > 0}
        losers == {k \in 1..n : trades[k].profit < 0}
        gp == IndexSum(LAMBDA j : trades[j].profit, winners)
        gl == -IndexSum(LAMBDA j : trades[j].profit, losers)
        spread == n * ReturnSquares - ReturnSum * ReturnSum
    IN  /\ r.totalTrades = n
        /\ Len(r.trades) = Min(TradeSampleCap, n)
        /\ \A k \in 1..Len(r.trades) : r.trades[k] = trades[k]
        /\ n <= TradeSampleCap => r.totalTrades = Len(r.trades)
        /\ n > 0 => r.winRate = Frac(Cardinality(winners), n)
        /\ n > 0 => r.profitFactor = (IF gl > 0 THEN Frac(gp, gl)
                                      ELSE IF gp > 0 THEN Whole(NoLossProfitFactor)
                                      ELSE Whole(0))
        /\ n > 0 => /\ \A k \in 1..n : RatLe(DrawdownAfter(k), r.maxDrawdown)
                    /\ \/ r.maxDrawdown = Whole(0)
                       \/ \E k \in 1..n : r.maxDrawdown = DrawdownAfter(k)
        /\ (n > 0 /\ WholeReturns) =>
             /\ (r.sharpe.sgn = 0) <=> (spread = 0 \/ ReturnSum = 0)
             /\ spread > 0 => r.sharpe.sq = Frac(ReturnSum * ReturnSum, spread)
             /\ (spread > 0 /\ ReturnSum > 0) => r.sharpe.sgn = 1
             /\ (spread > 0 /\ ReturnSum < 0) => r.sharpe.sgn = -1
\* Metrics of a list of more than 20 trades whose 21st is a winner.
C4_Witness ==
  /\ results # <<>>
  /\ Len(trades) > TradeSampleCap
  /\ trades[TradeSampleCap + 1].profit > 0
  /\ Len(results[1].trades) = TradeSampleCap

\* C5: maxDrawdown lies in [0, 1].
C5_DrawdownBound ==
  results # <<>> =>
    /\ RatLe(Whole(0), results[1].maxDrawdown)
    /\ RatLe(results[1].maxDrawdown, Whole(1))

\* C6: SMA Crossover on a flat series of at least 30 candles makes no trade
\* and the run is fulfilled with all-zero metrics; and whenever
\* calculateMetrics is given no trades its result is all zero.
ZeroResults ==
  [winRate |-> Whole(0), profitFactor |-> Whole(0), maxDrawdown |-> Whole(0),
   sharpe |-> SharpeZero, totalTrades |-> 0, trades |-> <<>>]
FlatSeries == \A k \in 1..Len(ohlc) : ohlc[k].close = ohlc[1].close
C6_ZeroTrades ==
  /\ (params.strategyName = SMACrossover /\ Len(ohlc) >= MinCandles /\ FlatSeries) =>
       /\ trades = <<>>
       /\ position = "null"
       /\ outcome.state # "rejected"
       /\ pc = "done" => (outcome = Fulfilled /\ results = <<ZeroResults>>)
  /\ (results # <<>> /\ trades = <<>>) => results = <<ZeroResults>>
\* The run on 40 flat candles is over.
C6_Witness ==
  /\ params.strategyName = SMACrossover
  /\ Len(ohlc) = 40 /\ FlatSeries
  /\ pc = "done" /\ outcome = Fulfilled

\* C7: when the loader fails, runBacktest is rejected with the loader's
\* error and neither executeStrategy nor calculateMetrics has been entered.
C7_LoaderFailure ==
  loaderError # NoError =>
    /\ outcome = Rejected(loaderError)
    /\ pc = "done"
    /\ calls.execute = 0 /\ calls.metrics = 0
    /\ results = <<>>
\* The loader gave up on a rate-limit answer.
C7_Witness == loaderError = ApiError(429) /\ pc = "done"

\* C8: once the fetch has succeeded and the length was checked, the run is
\* rejected for lack of history exactly when there are fewer than 30
\* candles, and then executeStrategy has not been entered.
C8_InsufficientHistory ==
  (loaderError = NoError /\ pc \notin {"fetch", "check"}) =>
    /\ (Len(ohlc) < MinCandles) <=> (outcome = Rejected(NotEnoughData))
    /\ (Len(ohlc) < MinCandles) => (pc = "done" /\ calls.execute = 0 /\ calls.metrics = 0)
\* 29 candles were rejected.
C8_Witness == Len(ohlc) = 29 /\ outcome = Rejected(NotEnoughData)

\* C9: a strategy name that is neither known one is rejected as an unknown
\* strategy before any fetch, and the run is never fulfilled.
C9_UnknownStrategy ==
  ~KnownStrategy =>
    /\ calls.fetch = 0
    /\ outcome.state # "fulfilled"
    /\ pc = "done" => outcome = Rejected("UnknownStrategy")

\* C10: with startDate >= endDate the run is rejected as an invalid date
\* range and no fetch is made.
C10_InvalidDateRange ==
  params.startDate >= params.endDate =>
    /\ calls.fetch = 0
    /\ pc = "done" => outcome = Rejected("InvalidDateRange")


\* C11: at every candle the SMA loop evaluates, a flat position is entered
\* at that candle's close exactly when the 10-candle average was at or below
\* the 30-candle average one candle earlier and is above it now, a long
\* position is exited at that candle's close exactly on the opposite cross,
\* and the position changes only where all four averages have a full window.
\* The averages are compared through their window sums: 3 * sum10 against
\* sum30.
WindowSum(j, period) ==
  IndexSum(LAMBDA k : ohlc[k + 1].close, (j - period + 1)..j)
ShortMinusLong(j) == 3 * WindowSum(j, ShortPeriod) - WindowSum(j, LongPeriod)
WindowsFull(j) == j - LongPeriod + 1 >= 0 /\ j < Len(ohlc)
C11_Step ==
  (pc = "smaLoop" /\ i' = i + 1) =>
    LET full == WindowsFull(i - 1) /\ WindowsFull(i)
        crossUp == full /\ ShortMinusLong(i - 1) <= 0 /\ ShortMinusLong(i) > 0
        crossDown == full /\ ShortMinusLong(i - 1) >= 0 /\ ShortMinusLong(i) < 0
        candle == ohlc[i + 1]
    IN  /\ position = "null" =>
             /\ (position' = "long") <=> crossUp
             /\ crossUp => (entryPrice' = candle.close /\ entryTime' = candle.timestamp)
             /\ trades' = trades
        /\ position = "long" =>
             /\ (position' = "null") <=> crossDown
             /\ crossDown =>
                  /\ Len(trades') = Len(trades) + 1
                  /\ trades'[Len(trades')].exitPrice = candle.close
                  /\ trades'[Len(trades')].exitTime = candle.timestamp
             /\ ~crossDown => trades' = trades
        /\ position' # position => full
C11_SMASignals == [][C11_Step]_vars
\* The SMA loop has entered on a cross above and exited on a cross below.
C11_Witness ==
  /\ pc = "smaLoop"
  /\ transitions = <<"enter", "exit">>


\* C12: at every candle with a defined RSI(14), the last candle of the
\* series included, a flat position is entered exactly when RSI < 30, and
\* at every such candle before the last a long position is exited exactly
\* when RSI > 70 (on the last candle the forced close exits at the same
\* close).  The RSI of candle j is taken from the 14 price changes ending
\* at candle j.
ChangeAt(k) == ohlc[k + 1].close - ohlc[k].close
GainSum(j) ==
  IndexSum(LAMBDA k : IF ChangeAt(k) > 0 THEN ChangeAt(k) ELSE 0, (j - RSIPeriod + 1)..j)
LossSum(j) ==
  IndexSum(LAMBDA k : IF ChangeAt(k) < 0 THEN -ChangeAt(k) ELSE 0, (j - RSIPeriod + 1)..j)
RSIDefinedAt(j) == j >= RSIPeriod /\ j < Len(ohlc)
Oversold(j) ==
  LossSum(j) > 0 /\ 100 * GainSum(j) < RSIOversold * (GainSum(j) + LossSum(j))
Overbought(j) ==
  LossSum(j) = 0 \/ 100 * GainSum(j) > RSIOverbought * (GainSum(j) + LossSum(j))
C12_Step ==
  (pc = "rsiLoop" /\ i' = i + 1 /\ RSIDefinedAt(i)) =>
    /\ position = "null" => ((position' = "long") <=> Oversold(i))
    /\ (position = "long" /\ i < Len(ohlc) - 1) => ((position' = "null") <=> Overbought(i))
C12_RSISignals == [][C12_Step]_vars


\* C13: for period >= 1, calculateSMA returns as many values as it was
\* given (none for none, all unavailable when period exceeds the length),
\* the first period - 1 unavailable and each later one the mean of the
\* period values ending there; on a constant series every defined value is
\* that constant.
SMACallReturned == call.fn = "calculateSMA" /\ ret.status # "pending"
ConstantData == \A k \in 1..Len(call.data) : call.data[k] = call.data[1]
C14_InvalidPeriod ==
  (SMACallReturned /\ call.period <= 0) =>
    (ret.status = "thrown" /\ ret.error = "InvalidParameter")

\* C15: on a non-empty price sequence every defined RSI value lies in
\* [0, 100]; it is 100 throughout on a strictly increasing sequence and 0
\* throughout on a strictly decreasing one.
RSICallReturned == call.fn = "calculateRSI" /\ ret.status # "pending"
StrictlyIncreasing == \A k \in 1..(Len(call.data) - 1) : call.data[k] < call.data[k + 1]
StrictlyDecreasing == \A k \in 1..(Len(call.data) - 1) : call.data[k] > call.data[k + 1]
C15_RSIRange ==
  (RSICallReturned /\ Len(call.data) >= 1) =>
    /\ ret.status = "returned"
    /\ \A k \in 1..Len(ret.value) :
         ~isNaN(ret.value[k]) =>
           /\ ret.value[k].den > 0
           /\ 0 <= ret.value[k].num
           /\ ret.value[k].num <= 100 * ret.value[k].den
           /\ StrictlyIncreasing => ret.value[k] = Whole(100)
           /\ StrictlyDecreasing => ret.value[k] = Whole(0)
\* A strictly decreasing sequence of three or more prices with a defined
\* RSI value.
C15_Witness ==
  /\ RSICallReturned
  /\ StrictlyDecreasing
  /\ Len(call.data) >= 3
  /\ \E k \in 1..Len(ret.value) : ~isNaN(ret.value[k])

\* C16: calculateRSI returns one value per price, the first `period`
\* unavailable and every later one, up to the last price, defined.
C16_RSIAligned ==
  RSICallReturned =>
    /\ Len(ret.value) = Len(call.data)
    /\ \A k \in 1..Len(call.data) :
         /\ k <= Len(ret.value)
         /\ (k - 1 < call.period) <=> isNaN(ret.value[k])


\* C17: on a non-empty list winRate is the number of trades with a positive
\* profit over the number of trades, so a break-even trade is not a win, and
\* it lies in [0, 1].
MetricsReturned == results # <<>> /\ Len(trades) > 0
C17_WinRate ==
  MetricsReturned =>
    LET w == results[1].winRate
        positive == {k \in 1..Len(trades) : trades[k].profit > 0}
    IN  /\ w.den > 0
        /\ w.num * Len(trades) = w.den * Cardinality(positive)
        /\ 0 <= w.num /\ w.num <= w.den
\* Metrics of a list holding a break-even trade and a winner.
C17_Witness ==
  /\ MetricsReturned
  /\ \E k \in 1..Len(trades) : trades[k].profit = 0
  /\ \E k \in 1..Len(trades) : trades[k].profit > 0

\* C18: on a non-empty list profitFactor is grossProfit / grossLoss when
\* there are losses, 999 when there are none but there are profits, 0 when
\* there are neither; it is a number and never negative.
C18_ProfitFactor ==
  MetricsReturned =>
    LET f == results[1].profitFactor
        gp == IndexSum(LAMBDA k : IF trades[k].profit > 0 THEN trades[k].profit ELSE 0,
                       1..Len(trades))
        gl == IndexSum(LAMBDA k : IF trades[k].profit < 0 THEN -trades[k].profit ELSE 0,
                       1..Len(trades))
    IN  /\ f.den > 0
        /\ f.num >= 0
        /\ gl > 0 => f.num * gl = f.den * gp
        /\ (gl = 0 /\ gp > 0) => f = Whole(999)
        /\ (gl = 0 /\ gp = 0) => f = Whole(0)
\* Metrics of a list with winners and no loser: the sentinel.
C18_Witness ==
  /\ MetricsReturned
  /\ \A k \in 1..Len(trades) : trades[k].profit >= 0
  /\ \E k \in 1..Len(trades) : trades[k].profit > 0
  /\ results[1].profitFactor = Whole(NoLossProfitFactor)


\* C19 as claimed: every trade has profit = exitPrice - entryPrice and
\* profitPercent = profit / entryPrice, its prices being the closes of the
\* candles it entered and exited on.
PricesAreCloses(t) ==
  /\ \E k \in 1..Len(ohlc) :
       ohlc[k].timestamp = t.entryTime /\ ohlc[k].close = t.entryPrice
  /\ \E k \in 1..Len(ohlc) :
       ohlc[k].timestamp = t.exitTime /\ ohlc[k].close = t.exitPrice
C19_ProfitFraction ==
  \A k \in 1..Len(trades) :
    LET t == trades[k]
    IN  /\ t.profit = t.exitPrice - t.entryPrice
        /\ t.profitPercent.num * t.entryPrice = t.profitPercent.den * t.profit
        /\ PricesAreCloses(t)
\* C19 as amended: every trade has profit = exitPrice - entryPrice and
\* profitPercent = 100 * profit / entryPrice, a percentage of the entry
\* price, its prices being the closes of the candles it entered and exited
\* on.
C19_ProfitPercent ==
  \A k \in 1..Len(trades) :
    LET t == trades[k]
    IN  /\ t.profit = t.exitPrice - t.entryPrice
        /\ t.entryPrice > 0
        /\ t.profitPercent.den > 0
        /\ t.profitPercent.num * t.entryPrice = t.profitPercent.den * 100 * t.profit
        /\ PricesAreCloses(t)
\* A run made a trade that won or lost.
C19_Witness ==
  /\ ohlc # <<>>
  /\ \E k \in 1..Len(trades) : trades[k].profit # 0

\* C20 as claimed: SMA Crossover on the 35 closes 100, 101, ..., 134 gives
\* exactly one trade, entered on a cross and closed by the forced exit at
\* 134, and totalTrades = 1.
Rising35 ==
  /\ params.strategyName = SMACrossover
  /\ Len(ohlc) = 35
  /\ \A k \in 1..Len(ohlc) : ohlc[k].close = 99 + k
C20_OneTrade ==
  (Rising35 /\ pc = "done") =>
    /\ outcome = Fulfilled
    /\ Len(trades) = 1
    /\ trades[1].exitPrice = 134
    /\ trades[1].exitTime = LastCandle.timestamp
    /\ PricesAreCloses(trades[1])
    /\ results[1].totalTrades = 1
\* C20 as amended: on that series the 10-candle average is above the
\* 30-candle average at every candle where both are defined, no cross is
\* detected, no position is ever opened, and the run is fulfilled with no
\* trade and totalTrades = 0.
C20_NoTrade ==
  Rising35 =>
    /\ \A j \in (LongPeriod - 1)..(Len(ohlc) - 1) : ShortMinusLong(j) > 0
    /\ trades = <<>>
    /\ transitions = <<>>
    /\ position = "null"
    /\ outcome.state # "rejected"
    /\ pc = "done" =>
         /\ outcome = Fulfilled
         /\ results[1].totalTrades = 0
         /\ results[1].trades = <<>>
\* The run on the rising series is over.
C20_Witness == Rising35 /\ pc = "done" /\ calls.execute = 1 /\ calls.metrics = 1


\* C21: an earlier call and a later one given the same candles, strategy name
\* and initialCapital returned the same trades and the same results, whatever
\* calls came between them; and the candles a call was given are the candles
\* it leaves.
SameInput(run) ==
  /\ run.candles = given
  /\ run.strategyName = params.strategyName
  /\ run.capital = capitalArg
C21_Stateless ==
  /\ ohlc = given
  /\ earlier # <<>> => earlier[1].candlesAfter = earlier[1].candles
  /\ (earlier # <<>> /\ pc = "done" /\ SameInput(earlier[1])) =>
       /\ trades = earlier[1].trades
       /\ results[1] = earlier[1].results
\* A call that made trades was repeated after a call with another strategy
\* left its own trades behind.
C21_Witness ==
  /\ earlier # <<>> /\ pc = "execute" /\ SameInput(earlier[1])
  /\ Len(earlier[1].trades) >= 1
  /\ Len(trades) >= 1
  /\ trades # earlier[1].trades

\* C26: SMA Crossover on fewer than 30 candles, and RSI Oversold/Overbought
\* on at most 15 candles (where calculateRSI defines no value), go through
\* executeStrategy without a position change and return the empty list.
Started == pc \in {"smaLoop", "rsiLoop", "metrics", "return", "done"}
NoRSIDefined == \A k \in 1..Len(rsi) : isNaN(rsi[k])
NothingTraded == trades = <<>> /\ transitions = <<>> /\ position = "null"
C26_ShortSeries ==
  Started =>
    /\ (params.strategyName = SMACrossover /\ Len(ohlc) < LongPeriod) => NothingTraded
    /\ (params.strategyName = RSIStrategy /\ Len(ohlc) <= RSIPeriod + 1) =>
         (NoRSIDefined /\ NothingTraded)
    /\ (params.strategyName = RSIStrategy /\ NoRSIDefined) => NothingTraded
\* SMA Crossover returned from 29 candles after RSI returned from 15.
C26_Witness ==
  /\ pc = "metrics"
  /\ params.strategyName = SMACrossover /\ Len(ohlc) = 29
  /\ earlier # <<>>
  /\ earlier[1].strategyName = RSIStrategy /\ Len(earlier[1].candles) = 15


\* C22: the stored backtest is 'completed' exactly when runBacktest returned
\* a result and the completing update was applied, and then it holds that
\* result (a zero-trade one included) and completedAt; it is 'failed' only
\* after runBacktest or the completing update threw, and then holds neither;
\* a 'completed' or 'failed' row never changes again.
C22_Recorded ==
  /\ backtest.status \in {"none", "pending", "completed", "failed"}
  /\ backtest.status = "completed" <=>
       (outcome = Fulfilled /\ job = [at |-> "end", caught |-> "nothing"])
  /\ backtest.status = "completed" =>
       /\ results # <<>>
       /\ backtest.results = results
       /\ backtest.completedAt = "set"
  /\ backtest.status = "failed" =>
       /\ job.caught \in {"runBacktest", "updateBacktest"}
       /\ job.caught = "runBacktest" <=> outcome.state = "rejected"
       /\ job.caught = "updateBacktest" <=> outcome = Fulfilled
       /\ backtest.results = <<>>
       /\ backtest.completedAt = "null"
  /\ outcome.state = "rejected" => backtest.status # "completed"
C22_Settled ==
  backtest.status \in {"completed", "failed"} => backtest' = backtest
C22_Outcome == []C22_Recorded /\ [][C22_Settled]_vars
\* A run that made no trade was recorded as completed.
C22_Witness ==
  /\ backtest.status = "completed"
  /\ backtest.results[1].totalTrades = 0
  /\ Len(ohlc) >= MinCandles


\* C23: in a runBacktest invocation executeStrategy and calculateMetrics are
\* each entered at most once; executeStrategy only after the loader returned
\* at least 30 candles without an error; calculateMetrics only after
\* executeStrategy returned; and once the invocation has failed no stage is
\* entered again.
C23_StageOrder ==
  /\ calls.execute <= 1 /\ calls.metrics <= 1
  /\ calls.fetch <= attempts + 1
  /\ calls.execute = 1 =>
       /\ pc \notin {"fetch", "check"}
       /\ calls.fetch >= 1
       /\ loaderError = NoError
       /\ Len(ohlc) >= MinCandles
  /\ pc \in {"execute", "smaLoop", "rsiLoop", "metrics"} => calls.metrics = 0
  /\ calls.metrics = 1 =>
       /\ calls.execute = 1
       /\ pc \in {"return", "done"}
       /\ position = "null"
       /\ results # <<>>
  /\ outcome.state = "rejected" =>
       /\ pc = "done"
       /\ calls.execute = 0 /\ calls.metrics = 0
  /\ outcome = Fulfilled =>
       /\ pc = "done"
       /\ calls.execute = 1 /\ calls.metrics = 1
\* A run whose loader needed a retry went through the three stages.
C23_Witness ==
  /\ outcome = Fulfilled
  /\ attempts >= 1
  /\ calls = [fetch |-> attempts + 1, execute |-> 1, metrics |-> 1]
  /\ Len(trades) >= 1


\* C24: with capital starting at initialCapital and growing by each trade's
\* profit in list order, and peak the largest capital so far (never falling,
\* never below initialCapital), maxDrawdown is the largest (peak - capital) /
\* peak over the trades; it is 0 exactly when no trade leaves the capital
\* below an earlier peak, as when no trade loses.
C24_DrawdownReplay ==
  MetricsReturned =>
    LET n == Len(trades)
        md == results[1].maxDrawdown
    IN  /\ \A k \in 0..n : /\ PeakAfter(k) >= CapitalOf(capitalArg)
                           /\ PeakAfter(k) >= CapitalAfter(k)
        /\ \A k \in 1..n : PeakAfter(k) >= PeakAfter(k - 1)
        /\ \A k \in 1..n : RatLe(DrawdownAfter(k), md)
        /\ \E k \in 1..n : md = DrawdownAfter(k)
        /\ md = Whole(0) <=> \A k \in 1..n : CapitalAfter(k) >= PeakAfter(k - 1)
        /\ (\A k \in 1..n : trades[k].profit >= 0) => md = Whole(0)
\* Metrics of a list that wins, loses and wins again, its largest drawdown
\* taken from a peak above the initial capital.
C24_Witness ==
  /\ MetricsReturned
  /\ \E k \in 2..(Len(trades) - 1) :
       /\ trades[k - 1].profit > 0 /\ trades[k].profit < 0 /\ trades[k + 1].profit > 0
       /\ results[1].maxDrawdown = DrawdownAfter(k)
       /\ PeakAfter(k) > CapitalOf(capitalArg)


\* C25: sharpe is 0 when all trades have the same profitPercent (so with one
\* trade); otherwise it is non-zero exactly when the mean profitPercent is
\* non-zero, and has the sign of that mean.
SameReturns == \A j, k \in 1..Len(trades) : trades[j].profitPercent = trades[k].profitPercent
MeanSign ==
  LET total == RatSum([k \in 1..Len(trades) |-> trades[k].profitPercent])
  IN  IF total.num > 0 THEN 1 ELSE IF total.num < 0 THEN -1 ELSE 0
C25_SharpeSign ==
  MetricsReturned =>
    /\ SameReturns => results[1].sharpe.sgn = 0
    /\ Len(trades) = 1 => results[1].sharpe.sgn = 0
    /\ ~SameReturns => results[1].sharpe.sgn = MeanSign


\* C27: whatever the order and the number of points per day of the feed, the
\* candles fetchHistoricalData returns have strictly increasing timestamps,
\* there is exactly one candle for each calendar day the feed has a point
\* on, and each candle has low <= min(open, close) <= max(open, close) <=
\* high and volume 0.
Fetched == pc # "fetch" /\ loaderError = NoError
FeedDays == {DateOf(response[j][1]) : j \in 1..Len(response)}
C27_Candles ==
  Fetched =>
    /\ \A k \in 1..(Len(ohlc) - 1) : ohlc[k].timestamp < ohlc[k + 1].timestamp
    /\ Len(ohlc) = Cardinality(FeedDays)
    /\ {DateOf(ohlc[k].timestamp) : k \in 1..Len(ohlc)} = FeedDays
    /\ \A k \in 1..Len(ohlc) :
         LET c == ohlc[k]
         IN  /\ c.low <= c.open /\ c.low <= c.close
             /\ c.open <= c.high /\ c.close <= c.high
             /\ c.volume = 0
\* A feed whose first point is of a later day than its last one, with a day
\* of two points that differ.
C27_Witness ==
  /\ Fetched
  /\ Len(response) >= 3
  /\ DateOf(response[1][1]) > DateOf(response[Len(response)][1])
  /\ Len(ohlc) = 2
  /\ \E k \in 1..2 : ohlc[k].low < ohlc[k].high


\* C28: the trades are in chronological order and do not overlap: each trade
\* is entered after the trade before it was exited, on a later candle, and
\* no trade exits before it entered; a position still open was entered after
\* the last trade's exit.
C28_NoOverlap ==
  /\ \A k \in 1..Len(trades) : trades[k].entryTime <= trades[k].exitTime
  /\ \A k \in 1..(Len(trades) - 1) : trades[k + 1].entryTime > trades[k].exitTime
  /\ (position = "long" /\ trades # <<>>) => entryTime > trades[Len(trades)].exitTime
\* A run exited on one candle, re-entered on the next and closed that trade.
C28_Witness ==
  /\ Len(trades) >= 2
  /\ trades[1].exitTime > trades[1].entryTime
  /\ trades[2].entryTime = trades[1].exitTime + HoursPerDay

\* C29: once the RSI strategy has begun, calculateRSI has one value fewer
\* than there are candles, no position is entered on the last candle, and while the loop
\* runs no trade exits on the last candle: a trade that exits there was made
\* by the forced close.
C29_LastCandle ==
  (params.strategyName = RSIStrategy /\ calls.execute = 1) =>
    /\ Len(rsi) = Len(ohlc) - 1
    /\ isNaN(At(rsi, Len(ohlc) - 1))
    /\ \A k \in 1..Len(trades) : trades[k].entryTime < LastCandle.timestamp
    /\ position = "long" => entryTime < LastCandle.timestamp
    /\ pc = "rsiLoop" => \A k \in 1..Len(trades) : trades[k].exitTime < LastCandle.timestamp
\* An RSI run ended without a trade although the last candle is oversold.
C29_Witness ==
  /\ params.strategyName = RSIStrategy
  /\ pc = "done" /\ outcome = Fulfilled
  /\ trades = <<>>
  /\ Oversold(Len(ohlc) - 1)


\* ---------------------------------------------------------------------------
\* The alert monitor: registerAlertClient, checkAlerts and startAlertMonitor.
\* ---------------------------------------------------------------------------

MaxPasses == 2
AlertIds == {"a1", "a2"}
Users == {"u1", "u2"}
Sockets == {"s1", "s2"}
\* WebSocket.readyState: 1 is OPEN, 2 is CLOSING, 3 is CLOSED.
OPEN == 1
CLOSING == 2
CLOSED == 3

\* A checkAlerts call that has not been made yet.
IdlePass == [at |-> "idle", list |-> <<>>, k |-> 0]

\* The orders in which a select without ORDER BY may return the rows S.
RowOrders(S) ==
  {s \in [1..Cardinality(S) -> S] : \A a, b \in DOMAIN s : a # b => s[a] # s[b]}

\* The rows of alerts the select of checkAlerts matches.
activeAlerts == {a \in AlertIds : alertRows[a].isActive /\ ~alertRows[a].triggered}

\* The for loop of checkAlerts moves to its next alert, or the pass ends.
NextAlert(p) ==
  IF passes[p].k < Len(passes[p].list)
    THEN [passes EXCEPT ![p].at = "fetch", ![p].k = @ + 1]
    ELSE [passes EXCEPT ![p].at = "done"]

engineIdle ==
  /\ params = [cryptoId |-> "bitcoin", strategyName |-> SMACrossover,
               startDate |-> 1, endDate |-> 45]
  /\ pc = "idle"
  /\ attempts = 0
  /\ loaderError = NoError
  /\ ohlc = <<>>
  /\ smaShort = <<>> /\ smaLong = <<>> /\ rsi = <<>>
  /\ i = 0
  /\ position = "null"
  /\ entryPrice = 0 /\ entryTime = 0
  /\ trades = <<>>
  /\ capitalArg = <<>>
  /\ results = <<>>
  /\ outcome = Pending
  /\ transitions = <<>>
  /\ calls = [fetch |-> 0, execute |-> 0, metrics |-> 0]
  /\ call = NoCall
  /\ ret = NotReturned
  /\ upstream = "daily"
  /\ response = <<>>
  /\ NoCaller

\* The server has started: alerts are stored, active and not triggered (the
\* defaults of the table; the second may have been switched off), the sockets
\* are connected and none has authenticated, no pass has begun.  The field
\* marks of a row counts the writes of triggered = true to it.
InitAlerts ==
  /\ engineIdle
  /\ alertRows \in {[a \in AlertIds |->
                       [userId |-> IF a = "a1" THEN "u1" ELSE "u2",
                        isActive |-> (a = "a1" \/ on),
                        triggered |-> FALSE, marks |-> 0]] : on \in BOOLEAN}
  /\ passes = [p \in 1..MaxPasses |-> IdlePass]
  /\ clientsByUser = [u \in Users |-> {}]
  /\ readyState = [ws \in Sockets |-> OPEN]
  /\ sent = [x \in Sockets \X AlertIds |-> <<>>]

alertUnchanged ==
  UNCHANGED <<params, pc, attempts, loaderError, ohlc, smaShort, smaLong, rsi,
              i, position, entryPrice, entryTime, trades, capitalArg, results,
              outcome, transitions, calls, call, ret, upstream, response,
              callerVars>>

\* registerAlertClient(ws, userId): an open socket sent a valid token.
registerAlertClient ==
  \E ws \in Sockets, userId \in Users :
    /\ readyState[ws] = OPEN
    /\ ws \notin clientsByUser[userId]
    /\ clientsByUser' = [clientsByUser EXCEPT ![userId] = @ \cup {ws}]
    /\ UNCHANGED <<alertRows, passes, readyState, sent>>
    /\ alertUnchanged

\* A socket begins to close: it is no longer OPEN, its 'close' event has not
\* been emitted yet.
SocketClosing ==
  \E ws \in Sockets :
    /\ readyState[ws] = OPEN
    /\ readyState' = [readyState EXCEPT ![ws] = CLOSING]
    /\ UNCHANGED <<alertRows, passes, clientsByUser, sent>>
    /\ alertUnchanged

\* The 'close' event: every handler registerAlertClient attached deletes the
\* socket from its user's set.
SocketClose ==
  \E ws \in Sockets :
    /\ readyState[ws] = CLOSING
    /\ readyState' = [readyState EXCEPT ![ws] = CLOSED]
    /\ clientsByUser' = [u \in Users |-> clientsByUser[u] \ {ws}]
    /\ UNCHANGED <<alertRows, passes, sent>>
    /\ alertUnchanged

\* startAlertMonitor's immediate call, or a tick of its 30 second interval:
\* checkAlerts is called and waits for its select.  The interval does not wait
\* for the pass before it.
StartPass ==
  \E p \in 1..MaxPasses :
    /\ passes[p].at = "idle"
    /\ p > 1 => passes[p - 1].at # "idle"
    /\ passes' = [passes EXCEPT ![p].at = "select"]
    /\ UNCHANGED <<alertRows, clientsByUser, readyState, sent>>
    /\ alertUnchanged

\* The select resolves: the pass holds the rows that are active and not
\* triggered now, and returns if there are none.
SelectAlerts ==
  \E p \in 1..MaxPasses :
    /\ passes[p].at = "select"
    /\ \E list \in RowOrders(activeAlerts) :
         passes' = [passes EXCEPT ![p] =
                      IF list = <<>> THEN [@ EXCEPT !.at = "done"]
                      ELSE [at |-> "fetch", list |-> list, k |-> 1]]
    /\ UNCHANGED <<alertRows, clientsByUser, readyState, sent>>
    /\ alertUnchanged

\* fetchSingleCryptoCached resolves and the switch on alertType decides
\* isTriggered; no price, a condition that is not met and a throw all move
\* the loop on.
CheckAlert ==
  \E p \in 1..MaxPasses, isTriggered \in BOOLEAN :
    /\ passes[p].at = "fetch"
    /\ passes' = IF isTriggered THEN [passes EXCEPT ![p].at = "update"]
                 ELSE NextAlert(p)
    /\ UNCHANGED <<alertRows, clientsByUser, readyState, sent>>
    /\ alertUnchanged

\* The update of the alert's row is applied: where id = alert.id, whatever
\* the row's triggered is by now.
UpdateAlert ==
  \E p \in 1..MaxPasses :
    /\ passes[p].at = "update"
    /\ alertRows' = [alertRows EXCEPT
                       ![passes[p].list[passes[p].k]].triggered = TRUE,
                       ![passes[p].list[passes[p].k]].marks = @ + 1]
    /\ passes' = [passes EXCEPT ![p].at = "notify"]
    /\ UNCHANGED <<clientsByUser, readyState, sent>>
    /\ alertUnchanged

\* The update throws: the catch inside the loop logs it, nothing is sent.
UpdateThrows ==
  \E p \in 1..MaxPasses :
    /\ passes[p].at = "update"
    /\ passes' = NextAlert(p)
    /\ UNCHANGED <<alertRows, clientsByUser, readyState, sent>>
    /\ alertUnchanged

\* After the update: 'alert-triggered' is sent to every OPEN socket of
\* clientsByUser.get(alert.userId).  sent keeps, for each message, the users
\* its socket was registered for when it was sent.
NotifyClients ==
  \E p \in 1..MaxPasses :
    /\ passes[p].at = "notify"
    /\ LET alert == passes[p].list[passes[p].k]
           userClients == clientsByUser[alertRows[alert].userId]
       IN sent' = [x \in Sockets \X AlertIds |->
                     IF x[2] = alert /\ x[1] \in userClients
                        /\ readyState[x[1]] = OPEN
                       THEN Append(sent[x],
                                   {u \in Users : x[1] \in clientsByUser[u]})
                       ELSE sent[x]]
    /\ passes' = NextAlert(p)
    /\ UNCHANGED <<alertRows, clientsByUser, readyState>>
    /\ alertUnchanged

NextAlerts ==
  \/ registerAlertClient
  \/ SocketClosing
  \/ SocketClose
  \/ StartPass
  \/ SelectAlerts
  \/ CheckAlert
  \/ UpdateAlert
  \/ UpdateThrows
  \/ NotifyClients

SpecAlerts == InitAlerts /\ [][NextAlerts]_vars

\* C30: each alert is written triggered at most once and sends each socket at
\* most one 'alert-triggered' message, also when passes overlap, and every
\* message went to a socket registered for the alert's userId.
C30_OneNotification ==
  /\ \A a \in AlertIds : alertRows[a].marks <= 1
  /\ \A x \in Sockets \X AlertIds : Len(sent[x]) <= 1
  /\ \A x \in Sockets \X AlertIds : \A k \in 1..Len(sent[x]) :
       alertRows[x[2]].userId \in sent[x][k]

====
